---------------------------- MODULE Spec2Model ----------------------------
(***************************************************************************)
(* A model of pvlib.solarposition.ephemeris (src/pvlib/solarposition.py).  *)
(*                                                                         *)
(* ephemeris() is a batch pipeline over numpy float64 arrays.  The model   *)
(* keeps its arithmetic in fixed point:                                    *)
(*   - angles are integers counting micro-degrees (1e-6 degree),           *)
(*   - sines, cosines, tangents and ratios are integers scaled by 1e6,     *)
(*   - the instant of a record is (year, day of year, second of the day). *)
(* Every product is formed by MulDiv, which never leaves 32 bits, and      *)
(* rounds towards minus infinity.  Where the magnitude-dependent grid of   *)
(* float64 decides the outcome (the azimuth normalisation, and the non-    *)
(* finite values of the refraction scale factor) it is modelled as such.   *)
(*                                                                         *)
(* The pipeline is modelled by component, in the order of the source:      *)
(*   SpecOrbit       lines 289-332  epoch date, orbital elements, Kepler   *)
(*                                  iteration, true anomaly, ecliptic      *)
(*                                  longitude                              *)
(*   SpecHourAngle   lines 309, 338-350  hour angle and solar time         *)
(*   SpecHorizontal  lines 342-379  azimuth normalisation, refraction and  *)
(*                                  the output table                       *)
(* A component whose inputs are produced by trigonometry upstream reads    *)
(* them from bounded sets covering the range of that upstream expression.  *)
(***************************************************************************)
EXTENDS Integers, Sequences, FiniteSets, TLC

VARIABLES
    pc,          \* position of the call in ephemeris()
    time_utc,    \* the batch: a sequence of [year, dayofyear, sec]
    EpochDate,   \* per instant [d2, s]: d2 half-days + s seconds
    MeanAnom,    \* per instant, micro-degrees
    Eccen,       \* per instant, scaled by 1e8
    MlPerigee,   \* per instant, micro-degrees
    EccenAnom,   \* per instant, micro-degrees
    E,           \* per instant, micro-degrees (the scalar 0 broadcast at first)
    iters,       \* number of passes of the while loop made so far (saturating)
    TrueAnom,    \* per instant, micro-degrees
    EcLon,       \* per instant, micro-degrees
    LocAST,      \* micro-degrees
    RtAscen,     \* micro-degrees
    HrAngle,     \* micro-degrees
    SolarTime,   \* fifteenths of a micro-hour (see Hour)
    SunAz,       \* float grid units (see Quantum)
    SunEl,       \* micro-degrees
    pressure,    \* a float value (see Fin, NaN, Inf)
    temperature, \* a float value
    Refract,     \* a float value: raw, then scaled
    branch,      \* which mask assignments wrote Refract, in order
    DFOut        \* the returned record, or the empty record

orbitVars == <<time_utc, EpochDate, MeanAnom, Eccen, MlPerigee, EccenAnom, E,
               iters, TrueAnom, EcLon>>
hourVars  == <<LocAST, RtAscen, HrAngle, SolarTime>>
horizVars == <<SunAz, SunEl, pressure, temperature, Refract, branch, DFOut>>
vars      == <<pc, orbitVars, hourVars, horizVars>>

-----------------------------------------------------------------------------
(* Fixed-point arithmetic.                                                 *)

\* One degree in micro-degrees; also the scale of sines and ratios.
Micro == 1000 * 1000

Abs(x) == IF x < 0 THEN -x ELSE x

Sign(x) == IF x < 0 THEN -1 ELSE IF x > 0 THEN 1 ELSE 0

\* <<q, r>> with a*b = q*c + r and 0 <= r < c, for 0 <= a < c and b >= 0,
\* by doubling, so that no intermediate value exceeds 3*c.
RECURSIVE MulQR(_, _, _)
MulQR(a, b, c) ==
    IF b = 0 THEN <<0, 0>>
    ELSE LET h == MulQR(a, b \div 2, c)
             t == 2 * h[2] + (b % 2) * a
         IN  <<2 * h[1] + (t \div c), t % c>>

\* floor(a*b/c) for c > 0, without overflow.
MulDiv(a, b, c) ==
    LET aa == Abs(a)
        bb == Abs(b)
        qr == MulQR(aa % c, bb, c)
        q  == (aa \div c) * bb + qr[1]
    IN  IF Sign(a) * Sign(b) >= 0 THEN q
        ELSE IF qr[2] = 0 THEN -q ELSE -q - 1

\* np.mod(x, m): the result has the sign of m.
Mod(x, m) == x % m

\* pi scaled by 1e6.
PiMicro == 3141593

\* np.radians: micro-degrees to micro-radians.
Radians(d) == MulDiv(d, PiMicro, 180 * Micro)

\* np.degrees: micro-radians to micro-degrees.
Degrees(r) == MulDiv(r, 180 * Micro, PiMicro)

\* sin of x micro-radians, 0 <= x <= pi/2, scaled by 1e6: the Taylor series
\* to x^13 in Horner form.
SinSeries(x) ==
    LET x2 == MulDiv(x, x, Micro)
        t6 == Micro - x2 \div 156
        t5 == Micro - MulDiv(x2, t6, 110 * Micro)
        t4 == Micro - MulDiv(x2, t5, 72 * Micro)
        t3 == Micro - MulDiv(x2, t4, 42 * Micro)
        t2 == Micro - MulDiv(x2, t3, 20 * Micro)
        t1 == Micro - MulDiv(x2, t2, 6 * Micro)
    IN  MulDiv(x, t1, Micro)

\* np.sin(np.radians(d)) for d in micro-degrees, scaled by 1e6.
SinDeg(d) ==
    LET a == Mod(d, 360 * Micro)
        h == IF a >= 180 * Micro THEN a - 180 * Micro ELSE a
        f == IF h > 90 * Micro THEN 180 * Micro - h ELSE h
        s == SinSeries(Radians(f))
    IN  IF a >= 180 * Micro THEN -s ELSE s

\* np.cos(np.radians(d)) for d in micro-degrees, scaled by 1e6.
CosDeg(d) == SinDeg(d + 90 * Micro)

\* arctan of w scaled by 1e6, |w| <= 1/8, in micro-radians: w - w^3/3 + w^5/5
\* - w^7/7.
AtanSeries(w) ==
    LET w2 == MulDiv(w, w, Micro)
        t3 == Micro \div 5 - MulDiv(w2, Micro \div 7, Micro)
        t2 == Micro \div 3 - MulDiv(w2, t3, Micro)
        t1 == Micro - MulDiv(w2, t2, Micro)
    IN  MulDiv(w, t1, Micro)

\* arctan(k/4) in micro-degrees, k = 0..4.
AtanQuarter(k) ==
    CASE k = 0 -> 0
      [] k = 1 -> 14036243
      [] k = 2 -> 26565051
      [] k = 3 -> 36869898
      [] k = 4 -> 45000000

\* arctan of z scaled by 1e6, 0 <= z <= 1, in micro-degrees:
\* arctan z = arctan c + arctan((z - c)/(1 + z*c)) with c the nearest quarter.
AtanUnit(z) ==
    LET k == (4 * z + Micro \div 2) \div Micro
        c == k * (Micro \div 4)
        w == MulDiv(z - c, Micro, Micro + MulDiv(z, c, Micro))
    IN  AtanQuarter(k) + Degrees(AtanSeries(w))

\* np.degrees(np.arctan2(y, x)) in micro-degrees, in [-180, 180] degrees.
Atan2Deg(y, x) ==
    LET ay == Abs(y)
        ax == Abs(x)
        a  == IF ay = 0 THEN 0
              ELSE IF ay <= ax THEN AtanUnit(MulDiv(ay, Micro, ax))
              ELSE 90 * Micro - AtanUnit(MulDiv(ax, Micro, ay))
        q  == IF x >= 0 THEN a ELSE 180 * Micro - a
    IN  IF y < 0 THEN -q ELSE q

\* The square root of v scaled by 1e6 (v scaled by 1e6, v >= 1): Newton's
\* iteration from 1.
RECURSIVE SqrtFrom(_, _, _)
SqrtFrom(v, g, n) ==
    IF n = 0 THEN g
    ELSE SqrtFrom(v, (g + MulDiv(v, Micro, g)) \div 2, n - 1)

SqrtNewton == 6

Sqrt(v) == SqrtFrom(v, Micro, SqrtNewton)


-----------------------------------------------------------------------------
(* Orbital elements: lines 289-322.                                        *)

\* np.max / np.min of a non-empty set of integers.
MaxOf(S) == CHOOSE m \in S : \A x \in S : x <= m

\* DecHours = hour + minute/60 + second/3600 (+ microsecond/3600e6), kept
\* as whole seconds of the UTC day.
DecHours(t) == t.sec

\* Yr = time_utc.year - 1900
Yr(t) == t.year - 1900

\* YrBegin = 365*Yr + floor((Yr - 1)/4) - 0.5, in half-days.
YrBegin(t) == 2 * (365 * Yr(t) + ((Yr(t) - 1) \div 4)) - 1

\* Ezero = YrBegin + UnivDate, in half-days, UnivDate = DayOfYear.
Ezero(t) == YrBegin(t) + 2 * t.dayofyear

\* EpochDate = Ezero + UnivHr/24: d2 half-days and s seconds.
EpochDateOf(t) == [d2 |-> Ezero(t), s |-> DecHours(t)]

\* The seconds in half a day.
HalfDay == 12 * 3600

\* EpochDate(a) - EpochDate(b), in seconds.
EpochDiff(a, b) == (a.d2 - b.d2) * HalfDay + (a.s - b.s)

\* T1 = EpochDate / 36525., scaled by 1e6.
T1(ed) == MulDiv(ed.d2, Micro, 2 * 36525) + (ed.s * 100) \div 315576

T1sq(ed) == MulDiv(T1(ed), T1(ed), Micro)

T1cu(ed) == MulDiv(T1sq(ed), T1(ed), Micro)

\* MlPerigee = 281.22083 + 4.70684e-05*EpochDate + 0.000453*T1**2
\*             + 3e-06*T1**3
MlPerigeeOf(ed) ==
    281220830 + MulDiv(ed.d2, 235342, 10000) + MulDiv(ed.s, 4707, 8640000)
      + MulDiv(453, T1sq(ed), Micro) + MulDiv(3, T1cu(ed), Micro)

\* MeanAnom = np.mod(358.47583 + 0.985600267*EpochDate - 0.00015*T1**2
\*                   - 3e-06*T1**3, 360)
\* 0.985600267 degree a day is 492800 + 0.1335 micro-degrees a half-day.
MeanAnomOf(ed) ==
    Mod(358475830
          + Mod(ed.d2 * 4928, 3600000) * 100 + (ed.d2 * 1335) \div 10000
          + MulDiv(ed.s, 985600267, 86400000)
          - MulDiv(150, T1sq(ed), Micro) - MulDiv(3, T1cu(ed), Micro),
        360 * Micro)

\* The scale of Eccen.
EccenScale == 100 * Micro

\* Eccen = 0.01675104 - 4.18e-05*T1 - 1.26e-07*T1**2
EccenOf(ed) ==
    1675104 - MulDiv(4180, T1(ed), Micro) - MulDiv(126, T1sq(ed), 10 * Micro)

\* np.degrees(Eccen), in micro-degrees.
DegreesEccen(e) == MulDiv(e, 180 * Micro, PiMicro * (EccenScale \div Micro))

-----------------------------------------------------------------------------
(* The Kepler iteration: lines 321-326.                                    *)

\* The 0.0001 degree of the loop condition, in micro-degrees.
Tolerance == 100

\* The largest number of passes the model counts; iters saturates one above.
KeplerCap == 100

\* np.max(abs(EccenAnom - E)) over the batch (the batch is not empty).
MaxAbsDiff(a, b) == MaxOf({Abs(a[i] - b[i]) : i \in DOMAIN a})

\* A loop condition that looks at the first instant of the batch only.
LoopCondFirst(a, b) == Abs(a[1] - b[1]) > Tolerance

\* The condition of the while loop: np.max(abs(EccenAnom - E)) > 0.0001
LoopCond(a, b) == MaxAbsDiff(a, b) > Tolerance

\* An update that adds the correction to the previous estimate instead of
\* the mean anomaly.
KeplerUpdateDrift(M, e, Ei) == Ei + MulDiv(DegreesEccen(e), SinDeg(Ei), Micro)

\* EccenAnom = MeanAnom + np.degrees(Eccen) * np.sin(np.radians(E))
KeplerUpdate(M, e, Ei) == M + MulDiv(DegreesEccen(e), SinDeg(Ei), Micro)

\* Lines 289-322: everything up to the first test of the loop condition.
\* E = 0 is a scalar, broadcast against the batch.
OrbitalElements ==
    /\ pc = "start"
    /\ EpochDate' = [i \in DOMAIN time_utc |-> EpochDateOf(time_utc[i])]
    /\ MlPerigee' = [i \in DOMAIN time_utc |-> MlPerigeeOf(EpochDate'[i])]
    /\ MeanAnom' = [i \in DOMAIN time_utc |-> MeanAnomOf(EpochDate'[i])]
    /\ Eccen' = [i \in DOMAIN time_utc |-> EccenOf(EpochDate'[i])]
    /\ EccenAnom' = MeanAnom'
    /\ E' = [i \in DOMAIN time_utc |-> 0]
    /\ pc' = "kepler"
    /\ UNCHANGED <<time_utc, iters, TrueAnom, EcLon, hourVars, horizVars>>

\* np.max of an empty array raises ValueError: the call ends there.
KeplerEmpty ==
    /\ pc = "kepler"
    /\ DOMAIN EccenAnom = {}
    /\ pc' = "raised"
    /\ UNCHANGED <<orbitVars, hourVars, horizVars>>

\* One pass of the loop body, lines 325-326.
KeplerPass ==
    /\ pc = "kepler"
    /\ DOMAIN EccenAnom # {}
    /\ LoopCond(EccenAnom, E)
    /\ E' = EccenAnom
    /\ EccenAnom' = [i \in DOMAIN MeanAnom |->
                        KeplerUpdate(MeanAnom[i], Eccen[i], EccenAnom[i])]
    /\ iters' = IF iters <= KeplerCap THEN iters + 1 ELSE iters
    /\ UNCHANGED <<pc, time_utc, EpochDate, MeanAnom, Eccen, MlPerigee,
                   TrueAnom, EcLon, hourVars, horizVars>>

\* The loop condition is false: the loop is left.
KeplerExit ==
    /\ pc = "kepler"
    /\ DOMAIN EccenAnom # {}
    /\ ~LoopCond(EccenAnom, E)
    /\ pc' = "anomaly"
    /\ UNCHANGED <<orbitVars, hourVars, horizVars>>

-----------------------------------------------------------------------------
(* True anomaly and ecliptic longitude: lines 279, 328-332.                *)

\* Abber = 20 / 3600.
Abber == (20 * Micro) \div 3600

\* np.degrees(np.arctan2(k * np.tan(x), 1)) for x = half micro-degrees and k
\* scaled by 1e6.  tan x = sin x / cos x, and arctan2(k*s/c, 1) is
\* arctan2(k*s, c) for c > 0 and arctan2(-k*s, -c) for c < 0; at c = 0 the
\* float tangent is huge with the sign of s, and the arctangent 90 degrees.
AtanOfRatio(y, c) ==
    IF c > 0 THEN Atan2Deg(y, c)
    ELSE IF c < 0 THEN Atan2Deg(-y, -c)
    ELSE Sign(y) * 90 * Micro

AtanOfTan(k, half) == AtanOfRatio(MulDiv(k, SinDeg(half), Micro), CosDeg(half))

\* TrueAnom = 2 * np.mod(np.degrees(np.arctan2(
\*     ((1 + Eccen)/(1 - Eccen))**0.5 * np.tan(np.radians(EccenAnom)/2.), 1)),
\*     360)
TrueAnomOf(e, ea) ==
    LET k == Sqrt(MulDiv(EccenScale + e, Micro, EccenScale - e))
    IN  2 * Mod(AtanOfTan(k, ea \div 2), 360 * Micro)

\* The aberration subtracted before the reduction.
EcLonReducedLast(mlp, ta) == Mod(mlp + ta - Abber, 360 * Micro)

\* EcLon = np.mod(MlPerigee + TrueAnom, 360) - Abber
EcLonOf(mlp, ta) == Mod(mlp + ta, 360 * Micro) - Abber

\* Lines 328-330.
TrueAnomaly ==
    /\ pc = "anomaly"
    /\ TrueAnom' = [i \in DOMAIN EccenAnom |-> TrueAnomOf(Eccen[i], EccenAnom[i])]
    /\ pc' = "eclon"
    /\ UNCHANGED <<time_utc, EpochDate, MeanAnom, Eccen, MlPerigee, EccenAnom,
                   E, iters, EcLon, hourVars, horizVars>>

\* Lines 331-332.
EclipticLongitude ==
    /\ pc = "eclon"
    /\ EcLon' = [i \in DOMAIN TrueAnom |-> EcLonOf(MlPerigee[i], TrueAnom[i])]
    /\ pc' = "orbit_done"
    /\ UNCHANGED <<time_utc, EpochDate, MeanAnom, Eccen, MlPerigee, EccenAnom,
                   E, iters, TrueAnom, hourVars, horizVars>>

-----------------------------------------------------------------------------
(* The batches of the orbit component.                                     *)

\* The calendar behind time_utc.year and time_utc.dayofyear (Gregorian).
IsLeap(y) == (y % 4 = 0 /\ y % 100 # 0) \/ y % 400 = 0

DaysInYear(y) == IF IsLeap(y) THEN 366 ELSE 365

\* The instant one calendar day after t, at the same time of day.
NextDay(t) ==
    IF t.dayofyear < DaysInYear(t.year)
    THEN [t EXCEPT !.dayofyear = @ + 1]
    ELSE [t EXCEPT !.year = @ + 1, !.dayofyear = 1]

At(y, d, s) == [year |-> y, dayofyear |-> d, sec |-> s]

\* Instants of the model: an afternoon in October 2003; the seconds of
\* 3 January 2003 around which the mean anomaly passes 0; the minutes of
\* 21 March 2003 after the sun crosses the equinox; and the last and first
\* days of years of every kind.
Instants ==
    { At(2003, 290, 70200), At(2003, 172, 54000),
      At(2003, 3, 68230), At(2003, 3, 36472), At(2003, 80, 3000),
      At(1900, 365, 43200), At(1901, 1, 43200),
      At(2003, 365, 43200), At(2004, 1, 43200),
      At(2004, 366, 0), At(2005, 1, 0),
      At(2100, 365, 43200), At(2101, 1, 43200) }

\* The longest batch of the model.
MaxBatch == 2

RECURSIVE SeqsUpTo(_, _)
SeqsUpTo(S, n) ==
    IF n = 0 THEN {<<>>}
    ELSE LET shorter == SeqsUpTo(S, n - 1)
         IN  shorter \cup {Append(q, x) : q \in shorter, x \in S}

Batches == SeqsUpTo(Instants, MaxBatch)

HourIdle ==
    /\ LocAST = 0 /\ RtAscen = 0 /\ HrAngle = 0 /\ SolarTime = 0

HorizIdle ==
    /\ SunAz = 0 /\ SunEl = 0 /\ pressure = 0 /\ temperature = 0
    /\ Refract = 0 /\ branch = <<>> /\ DFOut = <<>>

OrbitIdle ==
    /\ time_utc = <<>> /\ EpochDate = <<>> /\ MeanAnom = <<>> /\ Eccen = <<>>
    /\ MlPerigee = <<>> /\ EccenAnom = <<>> /\ E = <<>> /\ iters = 0
    /\ TrueAnom = <<>> /\ EcLon = <<>>

InitOrbit ==
    /\ pc = "start"
    /\ time_utc \in Batches
    /\ EpochDate = <<>> /\ MeanAnom = <<>> /\ Eccen = <<>>
    /\ MlPerigee = <<>> /\ EccenAnom = <<>> /\ E = <<>> /\ iters = 0
    /\ TrueAnom = <<>> /\ EcLon = <<>>
    /\ HourIdle
    /\ HorizIdle

NextOrbit ==
    \/ OrbitalElements
    \/ KeplerEmpty
    \/ KeplerPass
    \/ KeplerExit
    \/ TrueAnomaly
    \/ EclipticLongitude

SpecOrbit == InitOrbit /\ [][NextOrbit]_vars

-----------------------------------------------------------------------------
(* Properties of the orbit component.                                      *)

AfterKepler == {"anomaly", "eclon", "orbit_done"}

C7_StrictlyBelow ==
    pc \in AfterKepler =>
        /\ iters >= 1
        /\ \A i \in DOMAIN EccenAnom : Abs(EccenAnom[i] - E[i]) < Tolerance

\* C7 amended: the iteration starts from EccenAnom = MeanAnom; the loop is
\* left only when the change of every instant of the batch is at most the
\* tolerance (equality leaves the loop); if no pass was made, every mean
\* anomaly of the batch is at most the tolerance and EccenAnom is MeanAnom;
\* otherwise EccenAnom is the update of E for every instant.
C7_AtMostTolerance ==
    /\ (pc = "kepler" /\ iters = 0) => EccenAnom = MeanAnom
    /\ pc \in AfterKepler =>
          /\ \A i \in DOMAIN EccenAnom : Abs(EccenAnom[i] - E[i]) <= Tolerance
          /\ iters = 0 =>
                /\ EccenAnom = MeanAnom
                /\ \A i \in DOMAIN MeanAnom : MeanAnom[i] <= Tolerance
          /\ iters > 0 =>
                \A i \in DOMAIN EccenAnom :
                    EccenAnom[i] = MeanAnom[i]
                       + MulDiv(DegreesEccen(Eccen[i]), SinDeg(E[i]), Micro)

\* C7 witness: a batch of two instants leaves the loop with the largest
\* change equal to the tolerance.
C7_Witness ==
    /\ pc = "anomaly"
    /\ Len(time_utc) = 2
    /\ time_utc[1] # time_utc[2]
    /\ MaxAbsDiff(EccenAnom, E) = Tolerance

\* C9 as stated: the ecliptic longitude is perigee + true anomaly - Abber
\* reduced mod 360, and lies in [0, 360).
C9_ReducedLast ==
    pc = "orbit_done" =>
        \A i \in DOMAIN EcLon :
            /\ EcLon[i] = Mod(MlPerigee[i] + TrueAnom[i] - Abber, 360 * Micro)
            /\ 0 <= EcLon[i]
            /\ EcLon[i] < 360 * Micro

\* C9 amended: the sum perigee + true anomaly is reduced mod 360 first and
\* the aberration is subtracted from the reduced value, so the ecliptic
\* longitude lies in [-Abber, 360 - Abber) and is congruent mod 360 to the
\* value of the claim; it is negative when the sum is less than 20
\* arcseconds above a multiple of 360.
C9_ReducedFirst ==
    pc = "orbit_done" =>
        \A i \in DOMAIN EcLon :
            /\ -Abber <= EcLon[i]
            /\ EcLon[i] < 360 * Micro - Abber
            /\ EcLon[i] + Abber = Mod(MlPerigee[i] + TrueAnom[i], 360 * Micro)
            /\ Mod(EcLon[i], 360 * Micro)
                 = Mod(MlPerigee[i] + TrueAnom[i] - Abber, 360 * Micro)
            /\ (EcLon[i] < 0) =
                 (Mod(MlPerigee[i] + TrueAnom[i], 360 * Micro) < Abber)

\* C9 witness: an instant whose ecliptic longitude is negative.
C9_Witness ==
    pc = "orbit_done" /\ \E i \in DOMAIN EcLon : EcLon[i] < 0

\* The seconds in a day.
DaySeconds == 2 * HalfDay

\* C10: of two instants of a batch exactly one calendar day apart at the
\* same time of day, the later has an epoch date exactly one day greater.
C10_ContinuousDayCount ==
    pc # "start" =>
        \A i, j \in DOMAIN time_utc :
            time_utc[j] = NextDay(time_utc[i]) =>
                EpochDiff(EpochDate[j], EpochDate[i]) = DaySeconds

-----------------------------------------------------------------------------
(* Sidereal time and hour angle: lines 277, 309, 338-340, 350.             *)

\* GMSTi = np.mod(..., 360) lies in [0, 360): values of the model.
GMSTiValues ==
    { 0, 1, 90 * Micro, 180 * Micro, 213389899, 270 * Micro, 360 * Micro - 1 }

\* location.longitude in degrees east, in [-180, 180]: values of the model.
LongitudeValues ==
    { -180 * Micro, -105 * Micro, -1, 0, 1, 90 * Micro, 180 * Micro }

\* RtAscen = np.degrees(np.arctan2(...)) lies in [-180, 180]: values of the
\* model.
RtAscenValues ==
    { -180 * Micro, -157766078, -1, 0, 1, 90 * Micro, 180 * Micro - 1,
      180 * Micro }

\* Longitude = -1 * location.longitude
\* LocAST = np.mod((360 + GMSTi - Longitude), 360)
LocASTOf(gmsti, longitude) ==
    LET Longitude == -1 * longitude
    IN  Mod(360 * Micro + gmsti - Longitude, 360 * Micro)

\* A wrap that also moves the angles at exactly 180 degrees.
WrapAtOrAbove(h) == h - 360 * Micro * (IF Abs(h) >= 180 * Micro THEN 1 ELSE 0)

\* HrAngle = HrAngle - (360 * ((abs(HrAngle) > 180)))
WrapHrAngle(h) == h - 360 * Micro * (IF Abs(h) > 180 * Micro THEN 1 ELSE 0)

\* One hour of solar time: a fifteenth of a micro-hour is the unit, so that
\* the division by 15 is exact.
Hour == 15 * Micro

\* SolarTime = (180 + HrAngle) / 15.
SolarTimeOf(h) == MulDiv(180 * Micro + h, Hour, 15 * Micro)

\* Line 309.
SiderealTime ==
    /\ pc = "hour_start"
    /\ \E g \in GMSTiValues, lon \in LongitudeValues :
          LocAST' = LocASTOf(g, lon)
    /\ pc' = "hour_lst"
    /\ UNCHANGED <<RtAscen, HrAngle, SolarTime, orbitVars, horizVars>>

\* Lines 335-338: HrAngle = LocAST - RtAscen
HourAngle ==
    /\ pc = "hour_lst"
    /\ \E ra \in RtAscenValues : RtAscen' = ra
    /\ HrAngle' = LocAST - RtAscen'
    /\ pc' = "hour_raw"
    /\ UNCHANGED <<LocAST, SolarTime, orbitVars, horizVars>>

\* Line 340.
WrapHourAngle ==
    /\ pc = "hour_raw"
    /\ HrAngle' = WrapHrAngle(HrAngle)
    /\ pc' = "hour_wrapped"
    /\ UNCHANGED <<LocAST, RtAscen, SolarTime, orbitVars, horizVars>>

\* Line 350.
SolarTimeStep ==
    /\ pc = "hour_wrapped"
    /\ SolarTime' = SolarTimeOf(HrAngle)
    /\ pc' = "hour_done"
    /\ UNCHANGED <<LocAST, RtAscen, HrAngle, orbitVars, horizVars>>

InitHourAngle ==
    /\ pc = "hour_start"
    /\ HourIdle
    /\ OrbitIdle
    /\ HorizIdle

NextHourAngle ==
    \/ SiderealTime
    \/ HourAngle
    \/ WrapHourAngle
    \/ SolarTimeStep

SpecHourAngle == InitHourAngle /\ [][NextHourAngle]_vars

\* C8 as stated: the wrapped hour angle lies in (-180, 180] and the solar
\* time in (0, 24].
C8_HalfOpen ==
    /\ pc \in {"hour_wrapped", "hour_done"} =>
          -180 * Micro < HrAngle /\ HrAngle <= 180 * Micro
    /\ pc = "hour_done" => 0 < SolarTime /\ SolarTime <= 24 * Hour

\* C8 amended: the wrapped hour angle lies in the closed range [-180, 180]
\* and is congruent mod 360 to LocAST - RtAscen; it is exactly -180 when
\* LocAST = 0 and RtAscen = 180, because the wrap moves only the differences
\* above 180 in absolute value; the solar time is (180 + hour angle)/15
\* hours (in fifteenths of a micro-hour, 180 degrees + hour angle), lies in
\* [0, 24] and is 0 in that case.
C8_Closed ==
    /\ pc \in {"hour_wrapped", "hour_done"} =>
          /\ -180 * Micro <= HrAngle /\ HrAngle <= 180 * Micro
          /\ Mod(HrAngle, 360 * Micro) = Mod(LocAST - RtAscen, 360 * Micro)
          /\ (LocAST = 0 /\ RtAscen = 180 * Micro) => HrAngle = -180 * Micro
    /\ pc = "hour_done" =>
          /\ 0 <= SolarTime /\ SolarTime <= 24 * Hour
          /\ SolarTime = 180 * Micro + HrAngle
          /\ (LocAST = 0 /\ RtAscen = 180 * Micro) => SolarTime = 0

\* C8 witness: LocAST = 0 and RtAscen = 180 give the hour angle -180 and the
\* solar time 0.
C8_Witness ==
    pc = "hour_done" /\ HrAngle = -180 * Micro /\ SolarTime = 0

-----------------------------------------------------------------------------
(* float64 values that need not be finite.                                 *)

Fin(x) == [k |-> "fin", v |-> x]

NaN == [k |-> "nan", v |-> 0]

\* s = 1 for +inf, s = -1 for -inf.
Inf(s) == [k |-> "inf", v |-> s]

IsFin(x) == x.k = "fin"

\* x + y
FAdd(x, y) ==
    CASE x.k = "nan" \/ y.k = "nan" -> NaN
      [] x.k = "inf" /\ y.k = "inf" -> IF x.v = y.v THEN x ELSE NaN
      [] x.k = "inf" -> x
      [] y.k = "inf" -> y
      [] OTHER -> Fin(x.v + y.v)

\* -x
FNeg(x) == IF x.k = "nan" THEN NaN ELSE [x EXCEPT !.v = -@]

\* x * y, for finite operands scaled so that the product is x.v*y.v/scale.
FMul(x, y, scale) ==
    CASE x.k = "nan" \/ y.k = "nan" -> NaN
      [] x.k = "inf" \/ y.k = "inf" ->
            IF Sign(x.v) * Sign(y.v) = 0 THEN NaN
            ELSE Inf(Sign(x.v) * Sign(y.v))
      [] OTHER -> Fin(MulDiv(x.v, y.v, scale))

\* x / d for a finite non-zero integer d.
FDivInt(x, d) ==
    CASE x.k = "nan" -> NaN
      [] x.k = "inf" -> Inf(x.v * Sign(d))
      [] OTHER -> Fin(MulDiv(x.v * Sign(d), 1, Abs(d)))

-----------------------------------------------------------------------------
(* Azimuth: lines 342-344.                                                 *)

\* The azimuth is kept on the grid of a binary float with a 29-bit
\* significand: the unit is a quarter of a micro-degree, values below 128
\* degrees are whole units, values in [128, 256) degrees are multiples of 2
\* and values in [256, 512) degrees multiples of 4.
AzDegree == 4 * Micro

Quantum(x) ==
    IF Abs(x) >= 256 * AzDegree THEN 4
    ELSE IF Abs(x) >= 128 * AzDegree THEN 2
    ELSE 1

\* x rounded to the grid, to the nearest and ties to even.
RoundToFloat(x) ==
    LET q  == Quantum(x)
        lo == (x \div q) * q
        r  == x - lo
    IN  IF 2 * r < q THEN lo
        ELSE IF 2 * r > q THEN lo + q
        ELSE IF (lo \div q) % 2 = 0 THEN lo ELSE lo + q

\* np.degrees(np.arctan2(...)) lies in [-180, 180]: values of the model, in
\* grid units.
SunAzValues ==
    { -180 * AzDegree, -165598642 * 4, -90 * AzDegree, -4, -3, -2, -1,
      0, 1, 90 * AzDegree, 180 * AzDegree }

\* SunAz[SunAz < 0] += 360
NormalizeAz(az) == IF az < 0 THEN RoundToFloat(az + 360 * AzDegree) ELSE az

\* Lines 342-344.
Azimuth ==
    /\ pc = "horiz_start"
    /\ \E raw \in SunAzValues : SunAz' = NormalizeAz(raw)
    /\ pc' = "elevation"
    /\ UNCHANGED <<SunEl, pressure, temperature, Refract, branch, DFOut,
                   orbitVars, hourVars>>

-----------------------------------------------------------------------------
(* Refraction: lines 346-366.                                              *)

\* SunEl = np.degrees(np.arcsin(...)) lies in [-90, 90]: values of the
\* model, the ends of the ranges of the masks and the next value above or
\* below each.
SunElValues ==
    { -90 * Micro, -30 * Micro, -1000001, -1000000, -999999, -575001,
      -575000, -574999, 0, 1000000, 5000000, 5000001, 39855191,
      85 * Micro, 85 * Micro + 1, 90 * Micro }

\* TanEl = np.tan(np.radians(Elevation)), scaled by 1e6, where the cosine is
\* not 0.
TanEl(el) == MulDiv(SinDeg(el), Micro, CosDeg(el))

\* (Elevation > 5) & (Elevation <= 85)
MaskTangent(el) == el > 5 * Micro /\ el <= 85 * Micro

\* A mask closed at both ends.
MaskPolynomialClosed(el) == el >= -575000 /\ el <= 5 * Micro

\* (Elevation > -0.575) & (Elevation <= 5)
MaskPolynomial(el) == el > -575000 /\ el <= 5 * Micro

\* (Elevation > -1) & (Elevation <= -0.575)
MaskLow(el) == el > -1 * Micro /\ el <= -575000

\* 58.1*inv - 0.07*inv**3 + 8.6e-05*inv**5 in thousandths, for inv = 1/TanEl
\* and inv2 = inv**2, both scaled by 1e6.
TangentSeries(inv, inv2) ==
    MulDiv(58100, inv, Micro)
      - MulDiv(70, MulDiv(inv2, inv, Micro), Micro)
      + MulDiv(86, MulDiv(MulDiv(inv2, inv2, 1000 * Micro), inv, Micro), Micro)

TangentSeriesOfInverse(inv) == TangentSeries(inv, MulDiv(inv, inv, Micro))

\* 58.1/TanEl - 0.07/(TanEl**3) + 8.6e-05/(TanEl**5), in thousandths.
RefractTangent(el) == TangentSeriesOfInverse(MulDiv(Micro, Micro, TanEl(el)))

\* Elevation*(-518.2 + Elevation*(103.4 + Elevation*(-12.79 +
\* Elevation*0.711))) + 1735, in thousandths.
RefractPolynomial(el) ==
    LET a == -12790 + MulDiv(711, el, Micro)
        b == 103400 + MulDiv(a, el, Micro)
        c == -518200 + MulDiv(b, el, Micro)
    IN  MulDiv(c, el, Micro) + 1735000

\* -20.774 / TanEl, in thousandths; TanEl is negative here.
RefractLow(el) == MulDiv(20774, Micro, -TanEl(el))

\* Lines 346-355: the elevation, and Refract = pd.Series(0, ...).
Elevation ==
    /\ pc = "elevation"
    /\ \E el \in SunElValues : SunEl' = el
    /\ Refract' = Fin(0)
    /\ branch' = <<>>
    /\ pc' = "mask_tangent"
    /\ UNCHANGED <<SunAz, pressure, temperature, DFOut, orbitVars, hourVars>>

\* Lines 357-358.
AssignTangent ==
    /\ pc = "mask_tangent"
    /\ IF MaskTangent(SunEl)
       THEN /\ Refract' = Fin(RefractTangent(SunEl))
            /\ branch' = Append(branch, "tangent")
       ELSE UNCHANGED <<Refract, branch>>
    /\ pc' = "mask_polynomial"
    /\ UNCHANGED <<SunAz, SunEl, pressure, temperature, DFOut, orbitVars,
                   hourVars>>

\* Lines 360-362.
AssignPolynomial ==
    /\ pc = "mask_polynomial"
    /\ IF MaskPolynomial(SunEl)
       THEN /\ Refract' = Fin(RefractPolynomial(SunEl))
            /\ branch' = Append(branch, "polynomial")
       ELSE UNCHANGED <<Refract, branch>>
    /\ pc' = "mask_low"
    /\ UNCHANGED <<SunAz, SunEl, pressure, temperature, DFOut, orbitVars,
                   hourVars>>

\* Line 364.
AssignLow ==
    /\ pc = "mask_low"
    /\ IF MaskLow(SunEl)
       THEN /\ Refract' = Fin(RefractLow(SunEl))
            /\ branch' = Append(branch, "low")
       ELSE UNCHANGED <<Refract, branch>>
    /\ pc' = "scale"
    /\ UNCHANGED <<SunAz, SunEl, pressure, temperature, DFOut, orbitVars,
                   hourVars>>

-----------------------------------------------------------------------------
(* The scale factor and the output table: lines 366-379.                   *)

\* pressure in pascals: values of the model.
PressureValues == { Fin(0), Fin(80000), Fin(101325), NaN, Inf(1) }

\* temperature in degrees Celsius: values of the model.
TemperatureValues ==
    { Fin(12), Fin(-5), Fin(-273), Fin(-300), NaN, Inf(1), Inf(-1) }

\* 273. + temperature
Kelvin(T) == FAdd(Fin(273), T)

\* 283 / (273. + temperature), scaled by 1e6.  A zero divisor gives inf when
\* temperature is a numpy value.
Ratio283(a) ==
    CASE a.k = "nan" -> NaN
      [] a.k = "inf" -> Fin(0)
      [] OTHER -> IF a.v = 0 THEN Inf(1)
                  ELSE Fin(Sign(a.v) * MulDiv(283, Micro, Abs(a.v)))

\* pressure / 101325., scaled by 1e6.
PressureRatio(P) == IF IsFin(P) THEN Fin(MulDiv(P.v, Micro, 101325)) ELSE P

\* A scale factor without the pressure ratio.
ScaleFactorNoPressure(T, P) == FMul(Ratio283(Kelvin(T)), Fin(Micro), 3600 * 1000)

\* (283/(273. + temperature)) * (pressure/101325.) / 3600., scaled by 1e9.
ScaleFactor(T, P) == FMul(Ratio283(Kelvin(T)), PressureRatio(P), 3600 * 1000)

\* 283/(273. + temperature) divides by zero.
ZeroDivisor(T) == IsFin(Kelvin(T)) /\ Kelvin(T).v = 0

\* Line 366: Refract *= ..., from thousandths to micro-degrees.
Scale ==
    /\ pc = "scale"
    /\ Refract' = FMul(Refract, ScaleFactor(temperature, pressure), Micro)
    /\ pc' = "output"
    /\ UNCHANGED <<SunAz, SunEl, pressure, temperature, branch, DFOut,
                   orbitVars, hourVars>>

\* Line 366 when temperature is a Python number equal to -273: the division
\* raises ZeroDivisionError and the call ends.
ScaleRaise ==
    /\ pc = "scale"
    /\ ZeroDivisor(temperature)
    /\ pc' = "raised"
    /\ UNCHANGED <<horizVars, orbitVars, hourVars>>

\* ApparentSunEl = SunEl + Refract
ApparentSunEl(el, refract) == FAdd(Fin(el), refract)

\* DFOut['zenith'] = 90 - SunEl
Zenith(el) == FAdd(Fin(90 * Micro), FNeg(Fin(el)))

\* DFOut['apparent_zenith'] = 90 - ApparentSunEl
ApparentZenith(el, refract) ==
    FAdd(Fin(90 * Micro), FNeg(ApparentSunEl(el, refract)))

\* Lines 368-379.
Output ==
    /\ pc = "output"
    /\ DFOut' = [ elevation |-> Fin(SunEl),
                  azimuth |-> SunAz,
                  zenith |-> Zenith(SunEl),
                  apparent_elevation |-> ApparentSunEl(SunEl, Refract),
                  apparent_zenith |-> ApparentZenith(SunEl, Refract),
                  solar_time |-> SolarTime ]
    /\ pc' = "returned"
    /\ UNCHANGED <<SunAz, SunEl, pressure, temperature, Refract, branch,
                   orbitVars, hourVars>>

InitHorizontal ==
    /\ pc = "horiz_start"
    /\ pressure \in PressureValues
    /\ temperature \in TemperatureValues
    /\ SunAz = 0 /\ SunEl = 0 /\ Refract = Fin(0)
    /\ branch = <<>> /\ DFOut = <<>>
    /\ OrbitIdle
    /\ HourIdle

NextHorizontal ==
    \/ Azimuth
    \/ Elevation
    \/ AssignTangent
    \/ AssignPolynomial
    \/ AssignLow
    \/ Scale
    \/ ScaleRaise
    \/ Output

SpecHorizontal == InitHorizontal /\ [][NextHorizontal]_vars

-----------------------------------------------------------------------------
(* Properties of the horizontal component.                                 *)

\* C2: after the three masked assignments every elevation has been written
\* by exactly the branch of its tabulated half-open range, with the value
\* of that branch, or by none and is 0; no assignment overwrites another.
C2_OneBranch ==
    /\ Len(branch) <= 1
    /\ pc = "scale" =>
          /\ (5 * Micro < SunEl /\ SunEl <= 85 * Micro) =>
                /\ branch = <<"tangent">>
                /\ Refract = Fin(RefractTangent(SunEl))
          /\ (-575000 < SunEl /\ SunEl <= 5 * Micro) =>
                /\ branch = <<"polynomial">>
                /\ Refract = Fin(RefractPolynomial(SunEl))
          /\ (-1 * Micro < SunEl /\ SunEl <= -575000) =>
                /\ branch = <<"low">>
                /\ Refract = Fin(RefractLow(SunEl))
          /\ (SunEl <= -1 * Micro \/ SunEl > 85 * Micro) =>
                /\ branch = <<>>
                /\ Refract = Fin(0)

\* C2 witness: the elevation -0.575 has been written by the third branch
\* alone.
C2_Witness ==
    pc = "scale" /\ SunEl = -575000 /\ branch = <<"low">>

\* C3: a call with a non-finite pressure or temperature never returns a
\* table, and no returned record has a non-finite apparent elevation or
\* apparent zenith.
C3_NonFiniteRejected ==
    /\ (~IsFin(pressure) \/ ~IsFin(temperature)) =>
          pc \notin {"output", "returned"}
    /\ pc = "returned" =>
          /\ IsFin(DFOut.apparent_elevation)
          /\ IsFin(DFOut.apparent_zenith)

\* C4: with pressure = 0 and a finite temperature other than -273 the
\* scaled refraction is 0 whatever the elevation and its branch, and the
\* apparent columns equal the true ones.
C4_ZeroPressure ==
    ( /\ pressure = Fin(0)
      /\ IsFin(temperature)
      /\ temperature # Fin(-273) ) =>
        /\ pc \in {"output", "returned"} => Refract = Fin(0)
        /\ pc = "returned" =>
              /\ DFOut.apparent_elevation = DFOut.elevation
              /\ DFOut.apparent_zenith = DFOut.zenith

\* C4 witness: a record returned at pressure 0 whose elevation was written
\* by a branch.
C4_Witness ==
    /\ pc = "returned"
    /\ pressure = Fin(0)
    /\ temperature = Fin(12)
    /\ branch = <<"polynomial">>
    /\ DFOut.apparent_elevation = DFOut.elevation

\* C5: every azimuth lies in [0, 360).
C5_AzimuthRange ==
    pc # "horiz_start" => 0 <= SunAz /\ SunAz < 360 * AzDegree

\* C6: in every returned record zenith + elevation = 90, apparent_zenith +
\* apparent_elevation = 90 and apparent_elevation = elevation + Refract.
C6_Complements ==
    pc = "returned" =>
        /\ FAdd(DFOut.zenith, DFOut.elevation) = Fin(90 * Micro)
        /\ FAdd(DFOut.apparent_zenith, DFOut.apparent_elevation)
             = Fin(90 * Micro)
        /\ DFOut.apparent_elevation = FAdd(DFOut.elevation, Refract)

=============================================================================
